---- MODULE Spec2Model ----
(***************************************************************************)
(* Model of the CSD-JWT accumulator scheme (sd_algorithms/accumulators/    *)
(* csd_jwt.rs), of the shared SdAlgorithm helpers it calls                  *)
(* (sd_algorithms/sd_algorithm.rs) and of the adapter that holds its key    *)
(* material (adapters/accumulators/csd_jwt_adapter.rs).                     *)
(*                                                                         *)
(* JSON values are records named after the serde_json::Value variant:      *)
(*   [str |-> s]  [num |-> n]  [arr |-> <<..>>]  [obj |-> map]              *)
(* A Map<String, Value> is a function from keys to values; it iterates in   *)
(* the order of its keys (KeyOrder).  Strings are records too:              *)
(*   [lit |-> "text"]  plain text                                           *)
(*   [b64 |-> bytes]   Base64Url text of bytes                              *)
(* and bytes are [json |-> v] (JSON text of v) or [bin |-> p] (compressed   *)
(* encoding of a curve point p).                                            *)
(***************************************************************************)
EXTENDS Integers, Sequences, FiniteSets, TLC

\* ------------------------------------------------------------------ bounds
NumKeys == 2
MaxDiscl == 2
MaxVp == 2

\* ------------------------------------------------- calls and benchmark
VARIABLES
    call,       \* the last call of a shared function or of issue_vc, if any
    bench       \* the benchmark run of main.rs: its locals and the calls made

\* ------------------------------------------------------- reserved fields
CLAIMS == "credentialSubject"
ACCUMULATOR == "accumulator"
WVC == "wvc"
ISSUER == "issuer"

\* ----------------------------------------------------------- JSON values
Lit(s) == [lit |-> s]
B64(bytes) == [b64 |-> bytes]
JsonText(v) == [json |-> v]
Bin(p) == [bin |-> p]

JStr(s) == [str |-> s]
JNum(n) == [num |-> n]
JArr(a) == [arr |-> a]
JObj(m) == [obj |-> m]

IsStr(v) == "str" \in DOMAIN v
IsArr(v) == "arr" \in DOMAIN v
IsObj(v) == "obj" \in DOMAIN v

Ok(x) == [ok |-> x]
Err(e) == [err |-> e]
IsOk(r) == "ok" \in DOMAIN r
IsErr(r) == "err" \in DOMAIN r
NoRes == [none |-> TRUE]
Unit == "unit"

\* Key material is named: a public key matches the private key of its name.
NoKey == [kp |-> "none"]
BadKey == [kp |-> "malformed"]

\* Claim keys in the order a Map iterates them.
AllKeys == <<"birthdate", "name", "phone", "street", "zip">>
KeyOrder == SubSeq(AllKeys, 1, NumKeys)
ClaimKeys == {KeyOrder[i] : i \in 1..Len(KeyOrder)}

\* Claim values: a string and a number.
ClaimVals == {JStr(Lit("Alice")), JNum(7)}

EmptyMap == [k \in {} |-> 0]

\* Map::iter : the keys of m in iteration order
Iter(m) == SelectSeq(KeyOrder, LAMBDA k : k \in DOMAIN m)

\* Map::insert : sets key k, replacing a previous value
MapInsert(m, k, v) == [x \in DOMAIN m \cup {k} |-> IF x = k THEN v ELSE m[x]]

\* Map::remove
MapRemove(m, k) == [x \in DOMAIN m \ {k} |-> m[x]]

\* ------------------------------------------------ SdAlgorithm (shared)
\* extract_claims that takes a claim-set field of another shape for empty
extract_claims_lenient(map) ==
    IF CLAIMS \notin DOMAIN map
    THEN Err("Map does not contain the credentialSubject field")
    ELSE IF IsObj(map[CLAIMS])
         THEN Ok(map[CLAIMS].obj)
         ELSE Ok(EmptyMap)

\* extract_claims: the claim-set stored under CLAIMS
extract_claims(map) ==
    IF CLAIMS \notin DOMAIN map
    THEN Err("Map does not contain the credentialSubject field")
    ELSE IF IsObj(map[CLAIMS])
         THEN Ok(map[CLAIMS].obj)
         ELSE Err("CredentialSubject field is not an object")

\* remove_claims that reports success and leaves the claim-set in place
remove_claims_keep(map) == <<Ok(Unit), map>>

\* remove_claims that does not mind an absent claim-set
remove_claims_quiet(map) == <<Ok(Unit), MapRemove(map, CLAIMS)>>

\* remove_claims: <<result, map afterwards>>
remove_claims(map) ==
    IF CLAIMS \in DOMAIN map
    THEN <<Ok(Unit), MapRemove(map, CLAIMS)>>
    ELSE <<Err("Claim set not present"), map>>

\* insert_claims that leaves a map without claim-set as it is
insert_claims_guarded(map, claims) ==
    IF CLAIMS \in DOMAIN map
    THEN <<Ok(Unit), MapInsert(map, CLAIMS, JObj(claims))>>
    ELSE <<Err("Claim set not present"), map>>

\* insert_claims: <<result, map afterwards>>; the claims are inserted in
\* either case, the result tells whether a claim-set was there before
insert_claims(map, claims) ==
    <<IF CLAIMS \in DOMAIN map THEN Ok(Unit) ELSE Err("Claim set not present"),
      MapInsert(map, CLAIMS, JObj(claims))>>

\* position that counts the claims from one
position_from_one(claims, disclosure) ==
    LET keys == Iter(claims)
        hits == {i \in 1..Len(keys) : keys[i] = disclosure}
    IN IF hits = {} THEN -1 ELSE CHOOSE i \in hits : \A j \in hits : i <= j

\* filter_claims_by_disclosure_and_insert, lines 81-87: the index (from 0)
\* of the first claim whose key is the disclosure, -1 when there is none
position(claims, disclosure) ==
    LET keys == Iter(claims)
        hits == {i \in 1..Len(keys) : keys[i] = disclosure}
    IN IF hits = {} THEN -1 ELSE (CHOOSE i \in hits : \A j \in hits : i <= j) - 1

\* filter_claims_by_disclosure_and_insert, lines 80-88: one index per
\* disclosure found, in the order of the disclosures
RECURSIVE disclosed_indices(_, _)
disclosed_indices(claims, disclosures) ==
    IF disclosures = <<>> THEN <<>>
    ELSE LET i == position(claims, Head(disclosures))
             rest == disclosed_indices(claims, Tail(disclosures))
         IN IF i < 0 THEN rest ELSE <<i>> \o rest

\* disclosed_claims that keeps the claims that were not asked for
disclosed_claims_complement(claims, disclosures) ==
    [k \in {c \in DOMAIN claims :
               \A i \in 1..Len(disclosures) : disclosures[i] # c} |-> claims[k]]

\* filter_claims_by_disclosure_and_insert, lines 77-88: the claims found
disclosed_claims(claims, disclosures) ==
    [k \in {c \in DOMAIN claims :
               \E i \in 1..Len(disclosures) : disclosures[i] = c} |-> claims[k]]

\* filter_claims_by_disclosure_and_insert: <<result, map afterwards>>
filter_claims_by_disclosure_and_insert(map, disclosures) ==
    LET claims == extract_claims(map) IN
    IF IsErr(claims) THEN <<claims, map>> ELSE
    LET inserted == insert_claims(map, disclosed_claims(claims.ok, disclosures))
    IN IF IsErr(inserted[1]) THEN inserted
       ELSE <<Ok(disclosed_indices(claims.ok, disclosures)), inserted[2]>>

\* convert_claims_to_bytes that also encodes the claims that are no strings
convert_claims_to_bytes_all(claims) ==
    LET keys == Iter(claims)
    IN Ok([i \in 1..Len(keys) |->
             <<keys[i], ":",
               IF IsStr(claims[keys[i]]) THEN claims[keys[i]].str
               ELSE JsonText(claims[keys[i]])>>])

\* convert_claims_to_bytes: the bytes of key ':' value of every claim whose
\* value is a string, in iteration order
convert_claims_to_bytes(claims) ==
    LET keys == SelectSeq(Iter(claims), LAMBDA k : IsStr(claims[k]))
    IN Ok([i \in 1..Len(keys) |-> <<keys[i], ":", claims[keys[i]].str>>])

\* serialize_and_insert that stores the JSON text without Base64Url
serialize_and_insert_plain(map, field, element) ==
    MapInsert(map, field, JStr(JsonText(element)))

\* serialize_and_insert: JSON text of element, Base64Url, stored as a string
serialize_and_insert(map, field, element) ==
    MapInsert(map, field, JStr(B64(JsonText(element))))

\* get_and_decode::<T>: T is "String", "Map", "Vec" (of numbers),
\* "Signature" or "PoKSignature"
get_and_decode(map, field, T) ==
    IF field \notin DOMAIN map THEN Err("Failed to retrieve field")
    ELSE IF ~IsStr(map[field]) THEN Err("Encoded field is not a string")
    ELSE LET s == map[field].str IN
         IF "b64" \notin DOMAIN s THEN Err("Failed to decode field")
         ELSE IF "json" \notin DOMAIN s.b64 THEN Err("Failed to deserialize field")
         ELSE LET v == s.b64.json IN
              IF T = "String" /\ IsStr(v) THEN Ok(v.str)
              ELSE IF T = "Map" /\ IsObj(v) THEN Ok(v.obj)
              ELSE IF /\ T = "Vec" /\ IsArr(v)
                      /\ \A i \in 1..Len(v.arr) : "num" \in DOMAIN v.arr[i]
                   THEN Ok([i \in 1..Len(v.arr) |-> v.arr[i].num])
              ELSE IF T = "Signature" /\ "bbs" \in DOMAIN v THEN Ok(v.bbs)
              ELSE IF T = "PoKSignature" /\ "pok" \in DOMAIN v THEN Ok(v.pok)
              ELSE Err("Failed to deserialize field")

\* encode_jwt: unsigned envelope of the map
encode_jwt(map) == Ok([payload |-> map, sig |-> NoKey])

\* decode_jwt: the payload of an unsigned envelope
decode_jwt(jwt) ==
    IF jwt.sig = NoKey THEN Ok(jwt.payload) ELSE Err("Failed to decode jwt")

\* encode_and_sign_jwt that leaves the envelope unsigned
encode_and_sign_jwt_unsigned(map, private_key) ==
    Ok([payload |-> map, sig |-> NoKey])

\* encode_and_sign_jwt: envelope signed with the holder private key
encode_and_sign_jwt(map, private_key) ==
    IF private_key = BadKey THEN Err("Failed to create signer")
    ELSE Ok([payload |-> map, sig |-> [signer |-> private_key, over |-> map]])

\* decode_and_verify_jwt: the payload, when the signature verifies
decode_and_verify_jwt(jwt, public_key) ==
    IF public_key = BadKey THEN Err("Failed to create verifier")
    ELSE IF /\ jwt.sig # NoKey
            /\ jwt.sig.signer = public_key
            /\ jwt.sig.over = jwt.payload
         THEN Ok(jwt.payload)
    ELSE Err("Failed to decode and verify jwt")

\* ------------------------------------------- accumulator (vb_accumulator)
\* A curve point P^(prod (x + alpha)) is kept as the set of its factors x,
\* the secret alpha they were added under and the setup parameters of P.
Point(elems, sk, params) ==
    [elems |-> elems, sk |-> IF elems = {} THEN NoKey ELSE sk, params |-> params]

\* initialize that takes up the accumulator of the call before
initialize_resumed(params) ==
    IF call # NoRes /\ "acc" \in DOMAIN call THEN call.acc ELSE Point({}, NoKey, params)

\* PositiveAccumulator::initialize
initialize(params) == Point({}, NoKey, params)

\* InMemoryState that is kept from one call to the next
InMemoryState_shared ==
    IF call # NoRes /\ "db" \in DOMAIN call THEN call.db ELSE {}

\* InMemoryState::new: an empty db
InMemoryState_new == {}

\* add_batch: <<result, state afterwards>>
add_batch(acc, elements, sk, state) ==
    LET new == {elements[i] : i \in 1..Len(elements)} IN
    IF new \cap state # {}
    THEN <<Err("ElementPresent"), state>>
    ELSE <<Ok(Point(acc.elems \cup new, sk, acc.params)), state \cup new>>

\* get_membership_witnesses_for_batch that derives witness i against the
\* accumulator as it was when element i was added
get_membership_witnesses_incremental(acc, elements, sk, state) ==
    IF \E i \in 1..Len(elements) : elements[i] \notin state
    THEN Err("ElementAbsent")
    ELSE Ok([i \in 1..Len(elements) |->
                Point({elements[j] : j \in 1..(i - 1)}, sk, acc.params)])

\* get_membership_witnesses_for_batch: witness i is the accumulator with
\* the factor of element i divided out
get_membership_witnesses_for_batch(acc, elements, sk, state) ==
    IF \E i \in 1..Len(elements) : elements[i] \notin state
    THEN Err("ElementAbsent")
    ELSE Ok([i \in 1..Len(elements) |->
                Point(acc.elems \ {elements[i]}, sk, acc.params)])

\* verify_membership: witness^(element + alpha) = accumulator, alpha the
\* secret of issuer_public_key
verify_membership(acc, element, witness, pk, params) ==
    /\ witness.params = acc.params
    /\ acc.params = params
    /\ element \notin witness.elems
    /\ acc.elems = witness.elems \cup {element}
    /\ acc.sk = pk
    /\ witness.elems # {} => witness.sk = pk

\* ------------------------------------------------------- CsdJwtInstance
\* initialize_params: setup parameters and a key pair drawn from rng; a
\* public key matches the secret key of the same name
initialize_params(rng) ==
    [params |-> [pp |-> rng], secret_key |-> [kp |-> rng],
     public_key |-> [kp |-> rng]]

\* serialize: compressed bytes, Base64Url
serialize(p) == Ok(B64(Bin(p)))

\* deserialize: a curve point (accumulator and witness are both one point)
deserialize(s) ==
    IF "b64" \notin DOMAIN s THEN Err("Error in decoding element")
    ELSE IF "bin" \notin DOMAIN s.b64 THEN Err("Error in deserializing element")
    ELSE Ok(s.b64.bin)

\* convert_claim_to_scalar: hash of key ':' JSON text of value
convert_claim_to_scalar(key, value) == <<key, ":", JsonText(value)>>

\* body of the thread spawned for one WVC entry: the closure's return value
\* and, beside it, the value verify_membership computed
thread_body(claim_key, array_value, acc, pk, params) ==
    IF ~IsArr(array_value)
    THEN [result |-> Err("array field in Witness value container is not an array"),
          member |-> "unchecked"]
    ELSE LET array == array_value.arr IN
         IF Len(array) < 1
         THEN [result |-> Err("Salt not found"), member |-> "unchecked"]
         ELSE IF Len(array) < 2
         THEN [result |-> Err("Value not found"), member |-> "unchecked"]
         ELSE IF ~IsStr(array[1])
         THEN [result |-> Err("Either witnesses or values are not strings"),
               member |-> "unchecked"]
         ELSE LET witness == deserialize(array[1].str)
                  element == convert_claim_to_scalar(claim_key, array[2])
              IN IF IsErr(witness)
                 THEN [result |-> witness, member |-> "unchecked"]
                 ELSE [result |-> Ok(Unit),
                       member |-> IF verify_membership(acc, element, witness.ok,
                                                       pk, params)
                                  THEN "member" ELSE "nonmember"]

\* issue_vc, lines 186-190: the element of every claim, in iteration order
claim_elements(claims) ==
    LET keys == Iter(claims) IN
    [i \in 1..Len(keys) |-> convert_claim_to_scalar(keys[i], claims[keys[i]])]

\* build_wvc that pairs claim number index with the next witness
build_wvc_shifted(claims, witnesses) ==
    LET keys == Iter(claims) IN
    [k \in {keys[i] : i \in 1..Len(keys)} |->
        LET index == CHOOSE i \in 1..Len(keys) : keys[i] = k
        IN JArr(<<JStr(serialize(witnesses[(index % Len(keys)) + 1]).ok), claims[k]>>)]

\* build_wvc whose loop stops one claim early
build_wvc_short(claims, witnesses) ==
    LET keys == Iter(claims) IN
    [k \in {keys[i] : i \in 1..(Len(keys) - 1)} |->
        LET index == CHOOSE i \in 1..Len(keys) : keys[i] = k
        IN JArr(<<JStr(serialize(witnesses[index]).ok), claims[k]>>)]

\* issue_vc, lines 203-207: claim number index gets witness number index
build_wvc(claims, witnesses) ==
    LET keys == Iter(claims) IN
    [k \in {keys[i] : i \in 1..Len(keys)} |->
        LET index == CHOOSE i \in 1..Len(keys) : keys[i] = k
        IN JArr(<<JStr(serialize(witnesses[index]).ok), claims[k]>>)]

\* issue_vc that encodes the envelope before the claim-set is removed
issue_vc_stale(raw_vc, issuer_private_key, params) ==
    LET vc == raw_vc
        claims_r == extract_claims(vc)
    IN IF IsErr(claims_r) THEN claims_r ELSE
       LET claims == claims_r.ok
           elements == claim_elements(claims)
           added == add_batch(initialize(params), elements, issuer_private_key,
                             InMemoryState_new)
       IN IF IsErr(added[1]) THEN Err("Error in adding batch claims") ELSE
          LET accumulator == added[1].ok
              state == added[2]
              witnesses == get_membership_witnesses_for_batch(
                               accumulator, elements, issuer_private_key, state)
          IN IF IsErr(witnesses) THEN Err("Error in producing batch witnesses") ELSE
             LET witness_value_container == build_wvc(claims, witnesses.ok)
                 serialized_accumulator == serialize(accumulator).ok
                 vc1 == serialize_and_insert(vc, ACCUMULATOR, JStr(serialized_accumulator))
                 vc2 == serialize_and_insert(vc1, WVC, JObj(witness_value_container))
                 removed == remove_claims(vc2)
             IN IF IsErr(removed[1]) THEN removed[1] ELSE
                LET jwt == encode_jwt(vc2)
                IN IF IsErr(jwt) THEN jwt ELSE Ok(<<removed[2], jwt.ok>>)

\* issue_vc: Ok(<<vc, jwt>>) or Err
issue_vc(raw_vc, issuer_private_key, params) ==
    LET vc == raw_vc
        claims_r == extract_claims(vc)
    IN IF IsErr(claims_r) THEN claims_r ELSE
       LET claims == claims_r.ok
           elements == claim_elements(claims)
           added == add_batch(initialize(params), elements, issuer_private_key,
                             InMemoryState_new)
       IN IF IsErr(added[1]) THEN Err("Error in adding batch claims") ELSE
          LET accumulator == added[1].ok
              state == added[2]
              witnesses == get_membership_witnesses_for_batch(
                               accumulator, elements, issuer_private_key, state)
          IN IF IsErr(witnesses) THEN Err("Error in producing batch witnesses") ELSE
             LET witness_value_container == build_wvc(claims, witnesses.ok)
                 serialized_accumulator == serialize(accumulator).ok
                 vc1 == serialize_and_insert(vc, ACCUMULATOR, JStr(serialized_accumulator))
                 vc2 == serialize_and_insert(vc1, WVC, JObj(witness_value_container))
                 removed == remove_claims(vc2)
             IN IF IsErr(removed[1]) THEN removed[1] ELSE
                LET jwt == encode_jwt(removed[2])
                IN IF IsErr(jwt) THEN jwt ELSE Ok(<<removed[2], jwt.ok>>)

\* issue_vc, lines 183-195: the accumulator and the InMemoryState the call
\* holds after add_batch (none when the call returned before line 183)
issue_vc_state(raw_vc, issuer_private_key, params) ==
    LET claims_r == extract_claims(raw_vc) IN
    IF IsErr(claims_r) THEN [accumulator |-> initialize(params), state |-> InMemoryState_new]
    ELSE LET added == add_batch(initialize(params), claim_elements(claims_r.ok),
                                issuer_private_key, InMemoryState_new)
         IN [accumulator |-> IF IsOk(added[1]) THEN added[1].ok ELSE initialize(params),
             state |-> added[2]]

\* filter_wvc that keeps every entry
filter_wvc_all(witness_value_container, disclosures) ==
    witness_value_container

\* filter_wvc that takes an empty disclosure list for "disclose everything"
filter_wvc_empty_all(witness_value_container, disclosures) ==
    LET contains(field) == \E i \in 1..Len(disclosures) : disclosures[i] = field
    IN [field \in {f \in DOMAIN witness_value_container :
                      disclosures = <<>> \/ contains(f)} |->
           witness_value_container[field]]

\* issue_vp, lines 255-261: the entries whose key the disclosures contain
filter_wvc(witness_value_container, disclosures) ==
    LET contains(field) == \E i \in 1..Len(disclosures) : disclosures[i] = field
    IN [field \in {f \in DOMAIN witness_value_container : contains(f)} |->
           witness_value_container[field]]

\* issue_vp: Ok(<<vp, jwt>>) or Err
issue_vp(vc, disclosures, holder_private_key) ==
    LET vp == vc
        witness_value_container == get_and_decode(vp, WVC, "Map")
    IN IF IsErr(witness_value_container) THEN witness_value_container ELSE
       LET new_witness_value_container ==
               filter_wvc(witness_value_container.ok, disclosures)
           vp1 == serialize_and_insert(vp, WVC, JObj(new_witness_value_container))
           jwt == encode_and_sign_jwt(vp1, holder_private_key)
       IN IF IsErr(jwt) THEN jwt ELSE Ok(<<vp1, jwt.ok>>)

\* verify_vc_decode that refuses a container without entries
verify_vc_decode_nonempty(vc) ==
    LET wvc_r == get_and_decode(vc, WVC, "Map") IN
    IF IsErr(wvc_r) THEN wvc_r ELSE
    IF wvc_r.ok = EmptyMap THEN Err("Witness value container is empty") ELSE
    LET acc_s == get_and_decode(vc, ACCUMULATOR, "String") IN
    IF IsErr(acc_s) THEN acc_s ELSE
    LET acc_r == deserialize(acc_s.ok) IN
    IF IsErr(acc_r) THEN acc_r ELSE
    Ok([wvc |-> wvc_r.ok, accumulator |-> acc_r.ok])

\* verify_vc_decode that takes a container it cannot decode for an empty one
verify_vc_decode_lax(vc) ==
    LET wvc_r == get_and_decode(vc, WVC, "Map")
        acc_s == get_and_decode(vc, ACCUMULATOR, "String")
    IN IF IsErr(acc_s) THEN acc_s ELSE
       LET acc_r == deserialize(acc_s.ok) IN
       IF IsErr(acc_r) THEN acc_r ELSE
       Ok([wvc |-> IF IsOk(wvc_r) THEN wvc_r.ok ELSE EmptyMap,
           accumulator |-> acc_r.ok])

\* verify_vc up to the call of verify_witness_value_container: the decoded
\* container and accumulator, or the error returned
verify_vc_decode(vc) ==
    LET wvc_r == get_and_decode(vc, WVC, "Map") IN
    IF IsErr(wvc_r) THEN wvc_r ELSE
    LET acc_s == get_and_decode(vc, ACCUMULATOR, "String") IN
    IF IsErr(acc_s) THEN acc_s ELSE
    LET acc_r == deserialize(acc_s.ok) IN
    IF IsErr(acc_r) THEN acc_r ELSE
    Ok([wvc |-> wvc_r.ok, accumulator |-> acc_r.ok])

\* verify_vp_decode that reads the payload without verifying the signature
verify_vp_decode_unverified(jwt, holder_public_key) ==
    verify_vc_decode(jwt.payload)

\* verify_vp up to the call of verify_witness_value_container
verify_vp_decode(jwt, holder_public_key) ==
    LET vp == decode_and_verify_jwt(jwt, holder_public_key) IN
    IF IsErr(vp) THEN vp ELSE verify_vc_decode(vp.ok)

\* -------------------------------------------- BBS+ (zkryptium), symbolic
SIGNATURE == "signature"
NONCE == "nonce"
INDICES == "indices"

\* Vec<usize> / Vec<u8> as the JSON value serde writes: an array of numbers
JVec(q) == JArr([i \in 1..Len(q) |-> JNum(q[i])])

\* Signature::sign: a signature is kept as the messages it was made over
\* and the key it was made with
bbs_sign(messages, sk, pk) ==
    IF sk # pk THEN Err("Error in producing signature")
    ELSE Ok([bbs |-> [signed |-> messages, by |-> sk]])

\* Signature::verify
bbs_verify(signature, pk, messages) ==
    signature.by = pk /\ signature.signed = messages

StrictlyIncreasing(q) == \A i, j \in 1..Len(q) : i < j => q[i] < q[j]

\* PoKSignature::proof_gen: fails on a signature that is not over the
\* messages and on an index that is no position of the messages; whether it
\* takes indices that are repeated or not in increasing order is the
\* library's choice (accepts_any)
proof_gen(pk, signature, nonce, messages, indices, accepts_any) ==
    IF ~bbs_verify(signature, pk, messages)
    THEN Err("Failed to generate POK Signature")
    ELSE IF \E i \in 1..Len(indices) : indices[i] >= Len(messages)
    THEN Err("Failed to generate POK Signature")
    ELSE IF ~StrictlyIncreasing(indices) /\ ~accepts_any
    THEN Err("Failed to generate POK Signature")
    ELSE Ok([pok |-> [messages |-> messages, indices |-> indices,
                      pk |-> pk, nonce |-> nonce]])

\* PoKSignature::proof_verify: the j-th disclosed message is the signed
\* message at the j-th disclosed index
proof_verify(proof, pk, disclosed_messages, indices, nonce) ==
    /\ proof.pk = pk
    /\ proof.nonce = nonce
    /\ proof.indices = indices
    /\ Len(disclosed_messages) = Len(indices)
    /\ \A j \in 1..Len(indices) :
          /\ indices[j] < Len(proof.messages)
          /\ disclosed_messages[j] = proof.messages[indices[j] + 1]

\* --------------------------------------------------- BBSPlusInstance
BBSPlus_issue_vc(raw_vc, issuer_public_key, issuer_private_key) ==
    LET vc == raw_vc
        claims == extract_claims(vc)
    IN IF IsErr(claims) THEN claims ELSE
       LET claims_bytes == convert_claims_to_bytes(claims.ok)
           signature == bbs_sign(claims_bytes.ok, issuer_private_key,
                                 issuer_public_key)
       IN IF IsErr(signature) THEN signature ELSE
          LET vc1 == serialize_and_insert(vc, SIGNATURE, signature.ok)
              jwt == encode_jwt(vc1)
          IN Ok(<<vc1, jwt.ok>>)

BBSPlus_verify_vc(vc, issuer_public_key) ==
    LET signature == get_and_decode(vc, SIGNATURE, "Signature") IN
    IF IsErr(signature) THEN signature ELSE
    LET claims == extract_claims(vc) IN
    IF IsErr(claims) THEN claims ELSE
    LET claims_bytes == convert_claims_to_bytes(claims.ok) IN
    IF bbs_verify(signature.ok, issuer_public_key, claims_bytes.ok)
    THEN Ok(Unit) ELSE Err("Signature verification failed")

\* issue_vp, lines 95-101: what is handed to proof_gen, and the VP after the
\* filter
BBSPlus_issue_vp_args(vc, disclosures) ==
    LET vp == vc
        claims == extract_claims(vp)
    IN IF IsErr(claims) THEN claims ELSE
       LET filtered == filter_claims_by_disclosure_and_insert(vp, disclosures) IN
       IF IsErr(filtered[1]) THEN filtered[1] ELSE
       LET bbs_signature == get_and_decode(filtered[2], SIGNATURE, "Signature") IN
       IF IsErr(bbs_signature) THEN bbs_signature ELSE
       Ok([claims |-> claims.ok,
           disclosed_indices |-> filtered[1].ok,
           bbs_signature |-> bbs_signature.ok,
           messages |-> convert_claims_to_bytes(claims.ok).ok,
           vp |-> filtered[2]])

BBSPlus_issue_vp(vc, disclosures, issuer_public_key, holder_private_key, nonce, accepts_any) ==
    LET args == BBSPlus_issue_vp_args(vc, disclosures) IN
    IF IsErr(args) THEN args ELSE
    LET proof == proof_gen(issuer_public_key, args.ok.bbs_signature, nonce,
                           args.ok.messages, args.ok.disclosed_indices,
                           accepts_any)
    IN IF IsErr(proof) THEN proof ELSE
       LET vp1 == serialize_and_insert(args.ok.vp, SIGNATURE, proof.ok)
           vp2 == serialize_and_insert(vp1, INDICES,
                                       JVec(args.ok.disclosed_indices))
           vp3 == serialize_and_insert(vp2, NONCE, JVec(nonce))
           jwt == encode_and_sign_jwt(vp3, holder_private_key)
       IN IF IsErr(jwt) THEN jwt ELSE Ok(<<vp3, jwt.ok>>)

\* verify_vp, lines 137-143: what is handed to proof_verify
BBSPlus_verify_vp_args(signed_jwt, holder_public_key) ==
    LET vp == decode_and_verify_jwt(signed_jwt, holder_public_key) IN
    IF IsErr(vp) THEN vp ELSE
    LET bbs_signature == get_and_decode(vp.ok, SIGNATURE, "PoKSignature") IN
    IF IsErr(bbs_signature) THEN bbs_signature ELSE
    LET indices == get_and_decode(vp.ok, INDICES, "Vec") IN
    IF IsErr(indices) THEN indices ELSE
    LET nonce == get_and_decode(vp.ok, NONCE, "Vec") IN
    IF IsErr(nonce) THEN nonce ELSE
    LET claims == extract_claims(vp.ok) IN
    IF IsErr(claims) THEN claims ELSE
    Ok([bbs_signature |-> bbs_signature.ok,
        disclosed_indices |-> indices.ok,
        nonce |-> nonce.ok,
        claims |-> claims.ok,
        disclosed_claims |-> convert_claims_to_bytes(claims.ok).ok])

BBSPlus_verify_vp(signed_jwt, issuer_public_key, holder_public_key) ==
    LET args == BBSPlus_verify_vp_args(signed_jwt, holder_public_key) IN
    IF IsErr(args) THEN args ELSE
    IF proof_verify(args.ok.bbs_signature, issuer_public_key,
                    args.ok.disclosed_claims, args.ok.disclosed_indices,
                    args.ok.nonce)
    THEN Ok(Unit) ELSE Err("Signature verification failed")

\* ------------------------------------------------ SignatureSdAlgorithm
Contains(q, x) == \E i \in 1..Len(q) : q[i] = x

\* complementary_indices whose loop runs up to len inclusive
RECURSIVE complementary_indices_inclusive_from(_, _, _)
complementary_indices_inclusive_from(disclosed, index, len) ==
    IF index > len THEN <<>>
    ELSE (IF Contains(disclosed, index) THEN <<>> ELSE <<index>>)
            \o complementary_indices_inclusive_from(disclosed, index + 1, len)
complementary_indices_inclusive(disclosed, len) ==
    complementary_indices_inclusive_from(disclosed, 0, len)

\* the loop of lines 13-17 from index on
RECURSIVE complementary_indices_from(_, _, _)
complementary_indices_from(disclosed, index, len) ==
    IF index >= len THEN <<>>
    ELSE (IF Contains(disclosed, index) THEN <<>> ELSE <<index>>)
            \o complementary_indices_from(disclosed, index + 1, len)

\* complementary_indices
complementary_indices(disclosed, len) ==
    complementary_indices_from(disclosed, 0, len)

\* ------------------------------------------------------------ the state
VARIABLES
    adapter,    \* CsdJwtAdapter: holder and issuer keys, setup parameters
    raw_vc,     \* the raw credential handed to issue_vc
    issued,     \* what issue_vc returned
    cur,        \* the credential in the holder's hands: [map, jwt]
    nvp,        \* number of issue_vp calls made on it
    lastvp,     \* the last issue_vp call: its input, its disclosures, its result
    allowed,    \* issued keys that every disclosure list so far contained
    altered,    \* the alteration made to cur before verification, if any
    pc,         \* verifier: "idle", "spawn" (in the loop of 130-162), "done"
    mode,       \* "vc" for verify_vc, "vp" for verify_vp
    locals,     \* wvc and accumulator of verify_witness_value_container
    pending,    \* keys of the WVC entries the loop has not reached yet
    threads,    \* the spawned threads, by claim key
    result      \* what verify_vc / verify_vp returned

vars == <<adapter, raw_vc, issued, cur, nvp, lastvp, allowed, altered,
          pc, mode, locals, pending, threads, result, call, bench>>

holder == <<adapter, raw_vc, issued, cur, nvp, lastvp, allowed, altered>>
verifier == <<pc, mode, locals, pending, threads, result>>

\* CommonData::holder_keys
holder_keys == <<[kp |-> "holder"], [kp |-> "holder"]>>

\* CsdJwtAdapter::new
CsdJwtAdapter_new ==
    LET kp == initialize_params("issuer") IN
    [holder_public_key |-> holder_keys[1], holder_private_key |-> holder_keys[2],
     issuer_public_key |-> kp.public_key, issuer_private_key |-> kp.secret_key,
     params |-> kp.params]

\* Raw credentials: the template's metadata and, under CLAIMS, a claim-set,
\* something that is no object, or nothing.
Template == [f \in {ISSUER} |-> JStr(Lit("did:example:issuer"))]
ClaimSets == UNION {[K -> ClaimVals] : K \in SUBSET ClaimKeys}
RawCredentials ==
    {MapInsert(Template, CLAIMS, JObj(c)) : c \in ClaimSets}
        \cup {MapInsert(Template, CLAIMS, JStr(Lit("none"))), Template}

\* Disclosure lists: any keys, in any order, repeated or not
RECURSIVE SeqsUpTo(_, _)
SeqsUpTo(S, n) ==
    IF n = 0 THEN {<<>>}
    ELSE LET shorter == SeqsUpTo(S, n - 1)
         IN shorter \cup {Append(q, x) : q \in shorter, x \in S}
DisclosureLists == SeqsUpTo(ClaimKeys, MaxDiscl)
Range(q) == {q[i] : i \in 1..Len(q)}

Init ==
    /\ adapter = CsdJwtAdapter_new
    /\ raw_vc \in RawCredentials
    /\ issued = NoRes
    /\ cur = NoRes
    /\ nvp = 0
    /\ lastvp = NoRes
    /\ allowed = {}
    /\ altered = NoRes
    /\ pc = "idle"
    /\ mode = "none"
    /\ locals = NoRes
    /\ pending = <<>>
    /\ threads = EmptyMap
    /\ result = NoRes
    /\ call = NoRes
    /\ bench = NoRes

\* keys of the WVC of a credential map ({} when it cannot be decoded)
WvcOf(map) ==
    LET r == get_and_decode(map, WVC, "Map") IN IF IsOk(r) THEN r.ok ELSE EmptyMap

\* CsdJwtAdapter::issue_vc
IssueVc ==
    /\ issued = NoRes
    /\ LET r == issue_vc(raw_vc, adapter.issuer_private_key, adapter.params) IN
       /\ issued' = r
       /\ cur' = IF IsOk(r) THEN [map |-> r.ok[1], jwt |-> r.ok[2]] ELSE NoRes
       /\ allowed' = IF IsOk(r) THEN DOMAIN WvcOf(r.ok[1]) ELSE {}
    /\ UNCHANGED <<adapter, raw_vc, nvp, lastvp, altered>>
    /\ UNCHANGED verifier
    /\ UNCHANGED <<call, bench>>

\* CsdJwtAdapter::issue_vp, on the credential the previous call returned
IssueVp ==
    /\ cur # NoRes
    /\ altered = NoRes
    /\ pc = "idle"
    /\ nvp < MaxVp
    /\ \E disclosures \in DisclosureLists :
         LET r == issue_vp(cur.map, disclosures, adapter.holder_private_key) IN
         /\ lastvp' = [vc |-> cur.map, d |-> Range(disclosures), res |-> r]
         /\ cur' = IF IsOk(r) THEN [map |-> r.ok[1], jwt |-> r.ok[2]] ELSE cur
         /\ allowed' = allowed \cap Range(disclosures)
    /\ nvp' = nvp + 1
    /\ UNCHANGED <<adapter, raw_vc, issued, altered>>
    /\ UNCHANGED verifier
    /\ UNCHANGED <<call, bench>>

\* What a caller can hand to verify_vc / verify_vp instead of the credential
\* it was given: one claim value, one witness or the accumulator replaced
\* by a different value, or one entry of another shape.  A presentation is
\* signed again by the holder.
OtherPoints(map) ==
    LET w == WvcOf(map)
        acc == deserialize(get_and_decode(map, ACCUMULATOR, "String").ok).ok
        forged == initialize_params("forger")
    IN {w[k].arr[1].str : k \in DOMAIN w}
          \cup {serialize(acc).ok,
                serialize(Point(acc.elems, forged.secret_key, acc.params)).ok,
                Lit("garbage")}

Altered(map, kind, k, x) ==
    LET w == WvcOf(map)
        put(entry) == serialize_and_insert(map, WVC, JObj(MapInsert(w, k, entry)))
    IN CASE kind = "value" -> put(JArr(<<w[k].arr[1], x>>))
         [] kind = "witness" -> put(JArr(<<JStr(x), w[k].arr[2]>>))
         [] kind = "shape" -> put(x)
         [] kind = "accumulator" -> serialize_and_insert(map, ACCUMULATOR, JStr(x))

Alterations(map) ==
    LET w == WvcOf(map) IN
    {<<"value", k, x>> : k \in DOMAIN w, x \in ClaimVals}
      \cup {<<"witness", k, x>> : k \in DOMAIN w, x \in OtherPoints(map)}
      \cup {<<"shape", k, x>> : k \in DOMAIN w,
               x \in {JStr(Lit("entry")), JArr(<<>>), JArr(<<JStr(Lit("garbage"))>>),
                      JArr(<<JNum(7), JStr(Lit("Alice"))>>)}}
      \cup {<<"accumulator", "", x>> : x \in OtherPoints(map)}

Alter ==
    /\ cur # NoRes
    /\ altered = NoRes
    /\ pc = "idle"
    /\ \E a \in Alterations(cur.map) :
         LET map == Altered(cur.map, a[1], a[2], a[3])
             jwt == IF nvp = 0 THEN encode_jwt(map)
                    ELSE encode_and_sign_jwt(map, adapter.holder_private_key)
         IN /\ map # cur.map
            /\ cur' = [map |-> map, jwt |-> jwt.ok]
            /\ altered' = [kind |-> a[1], key |-> a[2], from |-> cur.map]
    /\ UNCHANGED <<adapter, raw_vc, issued, nvp, lastvp, allowed>>
    /\ UNCHANGED verifier
    /\ UNCHANGED <<call, bench>>

\* CsdJwtAdapter::verify_vc, lines 230-233 of verify_vc
VerifyVcBegin ==
    /\ cur # NoRes
    /\ pc = "idle"
    /\ mode' = "vc"
    /\ LET d == verify_vc_decode(cur.map) IN
       IF IsErr(d)
       THEN /\ result' = d
            /\ pc' = "done"
            /\ UNCHANGED <<locals, pending>>
       ELSE /\ locals' = d.ok
            /\ pending' = Iter(d.ok.wvc)
            /\ pc' = "spawn"
            /\ UNCHANGED result
    /\ UNCHANGED threads
    /\ UNCHANGED holder
    /\ UNCHANGED <<call, bench>>

\* CsdJwtAdapter::verify_vp, lines 282-285 of verify_vp
VerifyVpBegin ==
    /\ cur # NoRes
    /\ pc = "idle"
    /\ mode' = "vp"
    /\ LET d == verify_vp_decode(cur.jwt, adapter.holder_public_key) IN
       IF IsErr(d)
       THEN /\ result' = d
            /\ pc' = "done"
            /\ UNCHANGED <<locals, pending>>
       ELSE /\ locals' = d.ok
            /\ pending' = Iter(d.ok.wvc)
            /\ pc' = "spawn"
            /\ UNCHANGED result
    /\ UNCHANGED threads
    /\ UNCHANGED holder
    /\ UNCHANGED <<call, bench>>

\* verify_witness_value_container, one turn of the loop: clone the
\* accumulator, key and parameters and spawn the thread of the next entry
Spawn ==
    /\ pc = "spawn"
    /\ pending # <<>>
    /\ LET claim_key == Head(pending) IN
       threads' = MapInsert(threads, claim_key,
                     [state |-> "running",
                      array_value |-> locals.wvc[claim_key],
                      thread_accumulator |-> locals.accumulator,
                      thread_pk |-> adapter.issuer_public_key,
                      thread_params |-> adapter.params,
                      out |-> NoRes])
    /\ pending' = Tail(pending)
    /\ UNCHANGED <<pc, mode, locals, result>>
    /\ UNCHANGED holder
    /\ UNCHANGED <<call, bench>>

\* Return that takes the credential it was given away from the caller
Return_taking ==
    /\ pc = "spawn"
    /\ pending = <<>>
    /\ result' = Ok(Unit)
    /\ pc' = "done"
    /\ cur' = NoRes
    /\ UNCHANGED <<mode, locals, pending, threads>>
    /\ UNCHANGED <<adapter, raw_vc, issued, nvp, lastvp, allowed, altered>>
    /\ UNCHANGED <<call, bench>>

\* verify_witness_value_container after the loop: Ok(()) at once; the
\* JoinHandles are dropped and the threads run on detached
Return ==
    /\ pc = "spawn"
    /\ pending = <<>>
    /\ result' = Ok(Unit)
    /\ pc' = "done"
    /\ UNCHANGED <<mode, locals, pending, threads>>
    /\ UNCHANGED holder
    /\ UNCHANGED <<call, bench>>

\* a thread that borrows the loop's entry instead of owning its own: it reads
\* the entry of the thread spawned last
ThreadRun_borrowing(k) ==
    /\ k \in DOMAIN threads
    /\ threads[k].state = "running"
    /\ LET t == threads[k]
           spawned == Iter(threads)
           shared == threads[spawned[Len(spawned)]]
       IN threads' = [threads EXCEPT ![k] =
                      [t EXCEPT !.state = "done",
                                !.out = thread_body(k, shared.array_value,
                                           t.thread_accumulator, t.thread_pk,
                                           t.thread_params)]]
    /\ UNCHANGED <<pc, mode, locals, pending, result>>
    /\ UNCHANGED holder
    /\ UNCHANGED <<call, bench>>

\* a spawned thread runs its closure to the end
ThreadRun(k) ==
    /\ k \in DOMAIN threads
    /\ threads[k].state = "running"
    /\ LET t == threads[k] IN
       threads' = [threads EXCEPT ![k] =
                      [t EXCEPT !.state = "done",
                                !.out = thread_body(k, t.array_value,
                                           t.thread_accumulator, t.thread_pk,
                                           t.thread_params)]]
    /\ UNCHANGED <<pc, mode, locals, pending, result>>
    /\ UNCHANGED holder
    /\ UNCHANGED <<call, bench>>

Next ==
    \/ IssueVc
    \/ IssueVp
    \/ Alter
    \/ VerifyVcBegin
    \/ VerifyVpBegin
    \/ Spawn
    \/ Return
    \/ \E k \in ClaimKeys : ThreadRun(k)

Spec == Init /\ [][Next]_vars

\* ------------------------------------------- malformed credentials
\* What a caller can hand to verify_vc / verify_vp that is not a
\* credential: an envelope whose signature is missing, made with another
\* key or made over another payload, or a map whose WVC or accumulator
\* field is absent or does not hold what get_and_decode and deserialize
\* expect.  A malformed map is encoded, and a presentation signed, as
\* issue_vc and issue_vp would.
Enveloped(map) ==
    IF nvp = 0 THEN encode_jwt(map).ok
    ELSE encode_and_sign_jwt(map, adapter.holder_private_key).ok

Malformations(field) ==
    {[kind |-> "absent", field |-> field, map |-> MapRemove(cur.map, field)],
     [kind |-> "not a string", field |-> field,
      map |-> MapInsert(cur.map, field, JNum(7))],
     [kind |-> "not a string", field |-> field,
      map |-> MapInsert(cur.map, field, JObj(EmptyMap))],
     [kind |-> "not base64", field |-> field,
      map |-> MapInsert(cur.map, field, JStr(Lit("garbage")))],
     [kind |-> "not JSON", field |-> field,
      map |-> MapInsert(cur.map, field, JStr(B64(Bin(initialize(adapter.params)))))],
     [kind |-> "wrong type", field |-> field,
      map |-> serialize_and_insert(cur.map, field,
                 IF field = WVC THEN JStr(Lit("garbage")) ELSE JObj(EmptyMap))]}

Tamperings ==
    LET forger == initialize_params("forger")
        other == serialize_and_insert(cur.map, WVC, JObj(EmptyMap))
    IN {[kind |-> m.kind, field |-> m.field, map |-> m.map, jwt |-> Enveloped(m.map)] :
            m \in Malformations(WVC) \cup Malformations(ACCUMULATOR)}
       \cup {[kind |-> "no point", field |-> ACCUMULATOR,
               map |-> serialize_and_insert(cur.map, ACCUMULATOR, JStr(Lit("garbage"))),
               jwt |-> Enveloped(serialize_and_insert(cur.map, ACCUMULATOR,
                                                      JStr(Lit("garbage"))))],
              [kind |-> "unsigned", field |-> "", map |-> cur.map,
               jwt |-> encode_jwt(cur.map).ok],
              [kind |-> "unsigned", field |-> WVC, map |-> MapRemove(cur.map, WVC),
               jwt |-> encode_jwt(MapRemove(cur.map, WVC)).ok],
              [kind |-> "other key", field |-> "", map |-> cur.map,
               jwt |-> encode_and_sign_jwt(cur.map, forger.secret_key).ok],
              [kind |-> "payload changed", field |-> "", map |-> other,
               jwt |-> [payload |-> other, sig |-> cur.jwt.sig]]}

Tamper ==
    /\ cur # NoRes
    /\ altered = NoRes
    /\ pc = "idle"
    /\ \E t \in Tamperings :
         /\ <<t.map, t.jwt>> # <<cur.map, cur.jwt>>
         /\ cur' = [map |-> t.map, jwt |-> t.jwt]
         /\ altered' = [kind |-> t.kind, key |-> t.field, from |-> cur.map]
    /\ UNCHANGED <<adapter, raw_vc, issued, nvp, lastvp, allowed>>
    /\ UNCHANGED verifier
    /\ UNCHANGED <<call, bench>>

NextTamper ==
    \/ IssueVc
    \/ IssueVp
    \/ Tamper
    \/ VerifyVcBegin
    \/ VerifyVpBegin
    \/ Spawn
    \/ Return
    \/ \E k \in ClaimKeys : ThreadRun(k)

SpecTamper == Init /\ [][NextTamper]_vars

\* ------------------------------------- calls of the shared functions
\* The functions of SdAlgorithm are called on a map that starts as the raw
\* credential; call records the last call: its name, its argument, the map
\* before, the result, the map afterwards, and name and result of the call
\* before it.
MaxCalls == 2

Working == IF call = NoRes THEN raw_vc ELSE call.map
NCalls == IF call = NoRes THEN 0 ELSE call.n

Called(op, arg, out, map) ==
    [op |-> op, arg |-> arg, before |-> Working, out |-> out, map |-> map,
     n |-> NCalls + 1,
     prevop |-> IF call = NoRes THEN "none" ELSE call.op,
     prevout |-> IF call = NoRes THEN NoRes ELSE call.out]

\* extract_claims_call that takes the claim-set out of the map
extract_claims_take(map) == <<extract_claims(map), MapRemove(map, CLAIMS)>>

\* extract_claims borrows the map: <<result, map afterwards>>
extract_claims_call(map) == <<extract_claims(map), map>>

\* elements that serialize_and_insert is given, with the type they are
\* read back as
Elements ==
    {[T |-> "String", v |-> JStr(Lit("text"))],
     [T |-> "String", v |-> JStr(B64(Bin(initialize([pp |-> "issuer"]))))],
     [T |-> "Map", v |-> JObj(EmptyMap)],
     [T |-> "Map", v |-> JObj([k \in {KeyOrder[1]} |-> JNum(7)])]}
Fields == {ACCUMULATOR, WVC}

ExtractClaims ==
    /\ NCalls < MaxCalls
    /\ LET r == extract_claims_call(Working) IN
       call' = Called("extract_claims", NoRes, r[1], r[2])
    /\ UNCHANGED <<holder, verifier, bench>>

RemoveClaims ==
    /\ NCalls < MaxCalls
    /\ LET r == remove_claims(Working) IN
       call' = Called("remove_claims", NoRes, r[1], r[2])
    /\ UNCHANGED <<holder, verifier, bench>>

SerializeAndInsert ==
    /\ NCalls < MaxCalls
    /\ \E field \in Fields, element \in Elements :
         call' = Called("serialize_and_insert",
                        [field |-> field, element |-> element], Ok(Unit),
                        serialize_and_insert(Working, field, element.v))
    /\ UNCHANGED <<holder, verifier, bench>>

FilterClaims ==
    /\ call = NoRes
    /\ \E disclosures \in DisclosureLists :
         LET r == filter_claims_by_disclosure_and_insert(Working, disclosures) IN
         call' = Called("filter_claims_by_disclosure_and_insert",
                        [disclosures |-> disclosures], r[1], r[2])
    /\ UNCHANGED <<holder, verifier, bench>>

InsertClaims ==
    /\ NCalls < MaxCalls
    /\ \E claims \in ClaimSets :
         LET r == insert_claims(Working, claims) IN
         call' = Called("insert_claims", [claims |-> claims], r[1], r[2])
    /\ UNCHANGED <<holder, verifier, bench>>

ConvertClaimsToBytes ==
    /\ call = NoRes
    /\ IsOk(extract_claims(Working))
    /\ call' = Called("convert_claims_to_bytes",
                      [claims |-> extract_claims(Working).ok],
                      convert_claims_to_bytes(extract_claims(Working).ok), Working)
    /\ UNCHANGED <<holder, verifier, bench>>

NextFn ==
    \/ ExtractClaims
    \/ RemoveClaims
    \/ SerializeAndInsert
    \/ FilterClaims
    \/ InsertClaims
    \/ ConvertClaimsToBytes

SpecFn == Init /\ [][NextFn]_vars

\* ------------------------------------------------ the BBS+ instance
\* The flow of the test of bbs_plus.rs on any raw credential and any
\* disclosure list; call records the last call: the VC in hand, the
\* arguments the call computed for the library, and its result.
Nonces == {<<1>>, <<2>>}

BbsCall(op, vc, disclosures, args, out) ==
    [op |-> op, vc |-> vc, disclosures |-> disclosures, args |-> args, out |-> out]

BbsIssueVc ==
    /\ call = NoRes
    /\ LET out == BBSPlus_issue_vc(raw_vc, adapter.issuer_public_key,
                                   adapter.issuer_private_key)
       IN call' = BbsCall("issue_vc", IF IsOk(out) THEN out.ok[1] ELSE NoRes,
                          <<>>, NoRes, out)
    /\ UNCHANGED <<holder, verifier, bench>>

BbsVerifyVc ==
    /\ call # NoRes /\ call.op = "issue_vc" /\ IsOk(call.out)
    /\ call' = BbsCall("verify_vc", call.vc, <<>>, NoRes,
                       BBSPlus_verify_vc(call.vc, adapter.issuer_public_key))
    /\ UNCHANGED <<holder, verifier, bench>>

BbsIssueVp ==
    /\ call # NoRes /\ call.op \in {"issue_vc", "verify_vc"} /\ call.vc # NoRes
    /\ \E disclosures \in DisclosureLists, nonce \in Nonces,
          accepts_any \in BOOLEAN :
          call' = BbsCall("issue_vp", call.vc, disclosures,
                          BBSPlus_issue_vp_args(call.vc, disclosures),
                          BBSPlus_issue_vp(call.vc, disclosures,
                                           adapter.issuer_public_key,
                                           adapter.holder_private_key,
                                           nonce, accepts_any))
    /\ UNCHANGED <<holder, verifier, bench>>

BbsVerifyVp ==
    /\ call # NoRes /\ call.op = "issue_vp" /\ IsOk(call.out)
    /\ call' = BbsCall("verify_vp", call.vc, call.disclosures,
                       BBSPlus_verify_vp_args(call.out.ok[2],
                                              adapter.holder_public_key),
                       BBSPlus_verify_vp(call.out.ok[2],
                                         adapter.issuer_public_key,
                                         adapter.holder_public_key))
    /\ UNCHANGED <<holder, verifier, bench>>

NextBbs ==
    \/ BbsIssueVc
    \/ BbsVerifyVc
    \/ BbsIssueVp
    \/ BbsVerifyVp

SpecBbs == Init /\ [][NextBbs]_vars

\* --------------------------------------- calls of complementary_indices
\* Any vector of indices, repeated or not, in any order, below and above
\* len; call records the arguments and the vector returned.
MaxIndex == 3
MaxLen == 3
MaxDisclosed == 3
IndexVectors == SeqsUpTo(0..MaxIndex, MaxDisclosed)

ComplementaryIndices ==
    /\ call = NoRes
    /\ \E disclosed \in IndexVectors, len \in 0..MaxLen :
          call' = [op |-> "complementary_indices", disclosed |-> disclosed,
                   len |-> len, out |-> complementary_indices(disclosed, len)]
    /\ UNCHANGED <<holder, verifier, bench>>

InitComplement == Init /\ raw_vc = Template
NextComplement == ComplementaryIndices
SpecComplement == InitComplement /\ [][NextComplement]_vars

\* ------------------------------------------- repeated calls of issue_vc
\* One adapter issues one credential after the other; call records the
\* last call: the raw credential, the result, the accumulator and the
\* InMemoryState the call ended with, and argument and result of the call
\* before it.
IssueVcCall ==
    /\ NCalls < MaxCalls
    /\ \E raw \in RawCredentials :
          LET locals_after == issue_vc_state(raw, adapter.issuer_private_key,
                                             adapter.params)
          IN call' = [op |-> "issue_vc", arg |-> raw,
                      out |-> issue_vc(raw, adapter.issuer_private_key, adapter.params),
                      acc |-> locals_after.accumulator,
                      db |-> locals_after.state,
                      n |-> NCalls + 1,
                      prevarg |-> IF call = NoRes THEN NoRes ELSE call.arg,
                      prevout |-> IF call = NoRes THEN NoRes ELSE call.out]
    /\ UNCHANGED <<holder, verifier, bench>>

InitIssue == Init /\ raw_vc = Template
NextIssue == IssueVcCall
SpecIssue == InitIssue /\ [][NextIssue]_vars

\* ------------------------------------------- the input of the hash
\* convert_claim_to_scalar at the level of characters: keys and string
\* values are sequences of characters, objects are sequences of <<key,
\* value>> entries in iteration order.
MaxKeyLen == 1
MaxStrLen == 1

Chars == {"a", ":", "\"", "\\"}
Digits == <<"0", "1", "2", "3", "4", "5", "6", "7", "8", "9">>
IsNum(v) == "num" \in DOMAIN v

HashKeys == SeqsUpTo(Chars, MaxKeyLen)
HashStrings == {JStr(q) : q \in SeqsUpTo(Chars, MaxStrLen)}
HashNumbers == {JNum(7), JNum(10)}
HashAtoms == HashStrings \cup HashNumbers
HashItems == HashAtoms \cup {JArr(<<>>), JObj(<<>>)}
HashPairItems == {JNum(7), JStr(<<":">>)}
ObjKeys == {<<"\"">>, <<":">>, <<"a">>}
HashArrays ==
    {JArr(<<>>)} \cup {JArr(<<x>>) : x \in HashItems}
                \cup {JArr(<<x, y>>) : x, y \in HashPairItems}
HashObjects ==
    {JObj(<<>>)} \cup {JObj(<<(<<k, x>>)>>) : k \in ObjKeys, x \in HashItems}
                \cup {JObj(<<(<<(<<":">>), x>>), (<<(<<"a">>), y>>)>>) : x, y \in HashPairItems}
HashValues == HashAtoms \cup HashArrays \cup HashObjects

\* serde_json's Display for Value: compact JSON text
RECURSIVE escape(_)
escape(q) ==
    IF q = <<>> THEN <<>>
    ELSE (IF Head(q) \in {"\"", "\\"} THEN <<"\\", Head(q)>> ELSE <<Head(q)>>)
         \o escape(Tail(q))

quoted(q) == <<"\"">> \o escape(q) \o <<"\"">>

RECURSIVE decimal(_)
decimal(n) ==
    IF n < 10 THEN <<Digits[n + 1]>>
    ELSE decimal(n \div 10) \o <<Digits[(n % 10) + 1]>>

RECURSIVE to_string(_)
RECURSIVE items_to_string(_)
RECURSIVE entries_to_string(_)
to_string(v) ==
    IF IsStr(v) THEN quoted(v.str)
    ELSE IF IsNum(v) THEN decimal(v.num)
    ELSE IF IsArr(v) THEN <<"[">> \o items_to_string(v.arr) \o <<"]">>
    ELSE <<"{">> \o entries_to_string(v.obj) \o <<"}">>
items_to_string(a) ==
    IF a = <<>> THEN <<>>
    ELSE to_string(Head(a))
         \o (IF Tail(a) = <<>> THEN <<>> ELSE <<",">> \o items_to_string(Tail(a)))
entries_to_string(o) ==
    IF o = <<>> THEN <<>>
    ELSE quoted(Head(o)[1]) \o <<":">> \o to_string(Head(o)[2])
         \o (IF Tail(o) = <<>> THEN <<>> ELSE <<",">> \o entries_to_string(Tail(o)))

\* hash_input that pushes the content of a string value as it is
hash_input_raw(key, value) ==
    key \o <<":">> \o (IF IsStr(value) THEN value.str ELSE to_string(value))

\* the string convert_claim_to_scalar feeds to the hasher
hash_input(key, value) == key \o <<":">> \o to_string(value)

ConvertClaimToScalar ==
    /\ call = NoRes
    /\ \E key \in HashKeys, value \in HashValues :
          call' = Called("convert_claim_to_scalar",
                         [key |-> key, value |-> value],
                         hash_input(key, value), Working)
    /\ UNCHANGED <<holder, verifier, bench>>

InitHash == Init /\ raw_vc = Template
NextHash == ConvertClaimToScalar
SpecHash == InitHash /\ [][NextHash]_vars

\* ------------------------------------------------ the benchmark run
\* benchmark_multiple_mock_claims of main.rs.  The adapters of the four
\* schemes are taken by their contract (adapters/adapter.rs): an operation
\* returns a value that names the instance and the arguments it was made
\* from, or an error.  benchmark_function and benchmark_initialization
\* hand on what the closure returned.
MaxMockClaims == 20
VpEvery == 10

Schemes == <<"SdJwtAdapter", "CsdJwtAdapter", "MerkleTreeAdapter", "BBSPlusAdapter">>

Adapter_new(scheme, claims_len, made) ==
    [scheme |-> scheme, claims_len |-> claims_len, made |-> made]
Adapter_issue_vc(algo, raw) ==
    Ok(<<[vc_by |-> algo, vc_of |-> raw], [vc_jwt_by |-> algo, vc_jwt_of |-> raw]>>)
Adapter_issue_vp(algo, vc, disclosures) ==
    Ok(<<[vp_by |-> algo, vp_of |-> vc, vp_d |-> disclosures],
         [vp_jwt_by |-> algo, vp_jwt_of |-> vc, vp_jwt_d |-> disclosures]>>)

\* initialize_sd_algorithms: the instances, or the error of construction
\* number failed
initialize_sd_algorithms(claims_len, made, failed) ==
    IF failed = 0
    THEN Ok([i \in 1..Len(Schemes) |-> Adapter_new(Schemes[i], claims_len, made)])
    ELSE Err(<<"new", Schemes[failed]>>)

\* create_mock_disclosures that numbers the keys from zero
create_mock_disclosures_from_zero(n_disclosures) ==
    [i \in 1..n_disclosures |-> i - 1]

setup_raw_vc == MapInsert(Template, CLAIMS, JObj(EmptyMap))
mock_claims(n_mock_claims) ==
    [i \in 1..n_mock_claims |-> JStr([claim_value |-> i])]
substitute_with_mock_claims(raw, n_mock_claims) ==
    MapInsert(raw, CLAIMS, JObj(mock_claims(n_mock_claims)))
create_mock_disclosures(n_disclosures) == [i \in 1..n_disclosures |-> i]

\* vcs.get that always takes the first VC
vcs_get_first(vcs, index) == vcs[1]

\* vcs.get(index).unwrap()
vcs_get(vcs, index) == vcs[index + 1]

BenchLocals ==
    [pc |-> "init", n_mock_claims |-> 1, index |-> 0, n_disclosures |-> 0,
     raw_vc |-> setup_raw_vc, sd_algorithms |-> <<>>, vcs |-> <<>>,
     vc |-> NoRes, vp_jwt |-> NoRes, disclosures |-> <<>>, log |-> <<>>,
     result |-> NoRes, failed |-> NoRes]

\* return Err(..) through the ? operator, or the panic of unwrap()
Ended(b, res, op, scheme) ==
    [b EXCEPT !.pc = "end", !.result = res,
              !.failed = [op |-> op, scheme |-> scheme, n |-> b.n_mock_claims]]

Logged(b, op, algo, arg, out) ==
    [b EXCEPT !.log = Append(@, [op |-> op, algo |-> algo, arg |-> arg, out |-> out,
                                  n |-> b.n_mock_claims, nd |-> b.n_disclosures])]

\* end of the body of the loop of line 104
NextIteration(b) ==
    IF b.n_mock_claims < MaxMockClaims
    THEN [b EXCEPT !.pc = "init", !.n_mock_claims = @ + 1, !.n_disclosures = 0]
    ELSE [b EXCEPT !.pc = "end", !.result = Ok(Unit)]

\* lines 85-102
BenchStart ==
    /\ bench = NoRes
    /\ \E failed \in 0..Len(Schemes) :
          LET algorithms == initialize_sd_algorithms(1, 0, failed) IN
          bench' = IF IsErr(algorithms)
                   THEN [Ended(BenchLocals, algorithms, "new", Schemes[failed])
                            EXCEPT !.failed.n = 0]
                   ELSE BenchLocals
    /\ UNCHANGED <<holder, verifier, call>>

\* lines 107-112
BenchInit ==
    /\ bench # NoRes /\ bench.pc = "init"
    /\ \E failed \in 0..Len(Schemes) :
          LET raw == substitute_with_mock_claims(bench.raw_vc, bench.n_mock_claims)
              algorithms == initialize_sd_algorithms(bench.n_mock_claims,
                                                     bench.n_mock_claims, failed)
              b == [bench EXCEPT !.raw_vc = raw]
          IN bench' = IF IsErr(algorithms)
                      THEN Ended(b, algorithms, "new", Schemes[failed])
                      ELSE [b EXCEPT !.pc = "keys", !.sd_algorithms = algorithms.ok]
    /\ UNCHANGED <<holder, verifier, call>>

\* lines 113-130
BenchKeys ==
    /\ bench # NoRes /\ bench.pc = "keys"
    /\ \E failed \in 0..Len(Schemes) :
          bench' = IF failed # 0
                   THEN Ended(bench, [panic |-> "called Result::unwrap() on an Err value"],
                              "issuer_keypair", Schemes[failed])
                   ELSE [bench EXCEPT !.pc = "issue_vc", !.index = 0, !.vcs = <<>>]
    /\ UNCHANGED <<holder, verifier, call>>

\* lines 131-137
BenchIssueVc ==
    /\ bench # NoRes /\ bench.pc = "issue_vc"
    /\ \E ok \in BOOLEAN :
          LET algo == bench.sd_algorithms[bench.index + 1]
              clone == bench.raw_vc
              out == IF ok THEN Adapter_issue_vc(algo, clone)
                     ELSE Err(<<"issue_vc", algo.scheme>>)
              b == Logged(bench, "issue_vc", algo, clone, out)
          IN bench' = IF IsErr(out) THEN Ended(b, out, "issue_vc", algo.scheme)
                      ELSE [b EXCEPT !.pc = "verify_vc", !.vc = out.ok[1],
                                     !.vcs = Append(@, out.ok[1])]
    /\ UNCHANGED <<holder, verifier, call>>

\* lines 139-151, and 153-174 where the presentations are measured
BenchVerifyVc ==
    /\ bench # NoRes /\ bench.pc = "verify_vc"
    /\ \E ok \in BOOLEAN :
          LET algo == bench.sd_algorithms[bench.index + 1]
              out == IF ok THEN Ok(Unit) ELSE Err(<<"verify_vc", algo.scheme>>)
              b == Logged(bench, "verify_vc", algo, bench.vc, out)
          IN bench' =
               IF IsErr(out) THEN Ended(b, out, "verify_vc", algo.scheme)
               ELSE IF bench.index + 1 < Len(bench.sd_algorithms)
               THEN [b EXCEPT !.pc = "issue_vc", !.index = @ + 1]
               ELSE IF bench.n_mock_claims % VpEvery = 0
               THEN [b EXCEPT !.pc = "issue_vp", !.index = 0, !.n_disclosures = 1,
                              !.disclosures = create_mock_disclosures(1)]
               ELSE NextIteration(b)
    /\ UNCHANGED <<holder, verifier, call>>

\* lines 176-182
BenchIssueVp ==
    /\ bench # NoRes /\ bench.pc = "issue_vp"
    /\ \E ok \in BOOLEAN :
          LET algo == bench.sd_algorithms[bench.index + 1]
              clone == vcs_get(bench.vcs, bench.index)
              out == IF ok THEN Adapter_issue_vp(algo, clone, bench.disclosures)
                     ELSE Err(<<"issue_vp", algo.scheme>>)
              b == Logged(bench, "issue_vp", algo,
                          [vc |-> clone, disclosures |-> bench.disclosures], out)
          IN bench' = IF IsErr(out) THEN Ended(b, out, "issue_vp", algo.scheme)
                      ELSE [b EXCEPT !.pc = "verify_vp", !.vp_jwt = out.ok[2]]
    /\ UNCHANGED <<holder, verifier, call>>

\* lines 184-196
BenchVerifyVp ==
    /\ bench # NoRes /\ bench.pc = "verify_vp"
    /\ \E ok \in BOOLEAN :
          LET algo == bench.sd_algorithms[bench.index + 1]
              step == bench.n_mock_claims \div VpEvery
              out == IF ok THEN Ok(Unit) ELSE Err(<<"verify_vp", algo.scheme>>)
              b == Logged(bench, "verify_vp", algo, bench.vp_jwt, out)
          IN bench' =
               IF IsErr(out) THEN Ended(b, out, "verify_vp", algo.scheme)
               ELSE IF bench.index + 1 < Len(bench.sd_algorithms)
               THEN [b EXCEPT !.pc = "issue_vp", !.index = @ + 1]
               ELSE IF bench.n_disclosures + step <= bench.n_mock_claims
               THEN [b EXCEPT !.pc = "issue_vp", !.index = 0,
                              !.n_disclosures = @ + step,
                              !.disclosures =
                                  create_mock_disclosures(bench.n_disclosures + step)]
               ELSE NextIteration(b)
    /\ UNCHANGED <<holder, verifier, call>>

InitBench == Init /\ raw_vc = Template
NextBench ==
    \/ BenchStart
    \/ BenchInit
    \/ BenchKeys
    \/ BenchIssueVc
    \/ BenchVerifyVc
    \/ BenchIssueVp
    \/ BenchVerifyVp

SpecBench == InitBench /\ [][NextBench]_vars

\* ------------------------------------------------------------ the claims
Returned == pc = "done"
IssuedKeys == IF IsOk(issued) THEN DOMAIN WvcOf(issued.ok[1]) ELSE {}
Honest == altered = NoRes

\* what the thread of entry k of the container being verified computes
EntryCheck(k) ==
    thread_body(k, locals.wvc[k], locals.accumulator,
                adapter.issuer_public_key, adapter.params)
EntryPasses(k) == IsOk(EntryCheck(k).result) /\ EntryCheck(k).member = "member"

\* C1 Soundness: a credential (with at least one claim in its WVC) in which
\* a claim value, a witness or the accumulator field was replaced by a
\* different value is never accepted: verify_vc / verify_vp return an error.
Soundness ==
    (/\ Returned
     /\ altered # NoRes
     /\ altered.kind \in {"value", "witness", "accumulator"}
     /\ WvcOf(altered.from) # EmptyMap)
        => IsErr(result)

\* C2 Join before report: when verification has returned Ok(()), every
\* thread it started has terminated.
JoinBeforeReport ==
    (Returned /\ IsOk(result)) =>
        \A k \in DOMAIN threads : threads[k].state = "done"

\* C3 Aggregation: the result of verify_vc / verify_vp is Ok(()) exactly
\* when the check of every entry of the WVC ended successfully with a
\* positive membership check.
Aggregation ==
    (Returned /\ locals # NoRes) =>
        (IsOk(result) <=> \A k \in DOMAIN locals.wvc : EntryPasses(k))

\* C8 Error kind on forged proof: with the accumulator field of a valid VC
\* (of at least one claim) replaced by another well-formed accumulator
\* value, verify_vc returns an error that is no decode error: the per-claim
\* checks were reached and the error is theirs.
ForgedProofError ==
    (/\ Returned
     /\ mode = "vc"
     /\ altered # NoRes
     /\ altered.kind = "accumulator"
     /\ WvcOf(altered.from) # EmptyMap
     /\ IsOk(verify_vc_decode(cur.map)))
        => (IsErr(result) /\ locals # NoRes)

\* the threads that have finished found their claim in the accumulator
FinishedThreadsPass ==
    \A k \in DOMAIN threads :
        threads[k].state = "done" =>
            (IsOk(threads[k].out.result) /\ threads[k].out.member = "member")

\* C4 Completeness: issue_vc succeeds on every raw credential that holds a
\* claim-set, and verify_vc accepts the VC it returned under the adapter's
\* own keys and parameters; every per-claim check that ran found its claim
\* in the accumulator.
Completeness ==
    /\ (issued # NoRes /\ IsOk(extract_claims(raw_vc))) => IsOk(issued)
    /\ (Honest /\ nvp = 0 /\ mode = "vc") =>
          /\ Returned => IsOk(result)
          /\ FinishedThreadsPass

CompletenessWitness ==
    /\ Honest /\ nvp = 0 /\ mode = "vc" /\ Returned /\ IsOk(result)
    /\ Cardinality(DOMAIN threads) = NumKeys
    /\ \A k \in DOMAIN threads : threads[k].state = "done"

\* the WVC entries and the other fields of the last issue_vp call
LastIn == WvcOf(lastvp.vc)
LastOut == WvcOf(lastvp.res.ok[1])
SubsetDisclosed == lastvp # NoRes /\ lastvp.d \subseteq DOMAIN LastIn

\* C5 Disclosure confinement: issue_vp with disclosures D, all keys of the
\* credential's WVC, returns a VP whose WVC has exactly the keys D, each
\* entry the credential's own; the rest of the VP is the credential's, which
\* holds no claim-set.
DisclosureConfinement ==
    SubsetDisclosed =>
        /\ IsOk(lastvp.res)
        /\ DOMAIN LastOut = lastvp.d
        /\ \A k \in lastvp.d : LastOut[k] = LastIn[k]
        /\ MapRemove(lastvp.res.ok[1], WVC) = MapRemove(lastvp.vc, WVC)
        /\ CLAIMS \notin DOMAIN lastvp.res.ok[1]
        /\ IsOk(get_and_decode(lastvp.res.ok[1], WVC, "Map"))

DisclosureConfinementWitness ==
    /\ SubsetDisclosed
    /\ nvp = 1
    /\ lastvp.d # {}
    /\ lastvp.d # DOMAIN LastIn
    /\ DOMAIN LastOut = lastvp.d

\* C6 Presentation completeness: verify_vp accepts the envelope issue_vp
\* returned for disclosures that are keys of the issued VC, under the
\* adapter's holder and issuer keys; every per-claim check that ran found
\* its claim in the accumulator.
PresentationCompleteness ==
    (Honest /\ nvp > 0 /\ SubsetDisclosed /\ mode = "vp") =>
        /\ Returned => IsOk(result)
        /\ pc # "idle" => (locals # NoRes /\ DOMAIN locals.wvc = lastvp.d)
        /\ FinishedThreadsPass

PresentationCompletenessWitness ==
    /\ Honest /\ nvp = 1 /\ SubsetDisclosed /\ mode = "vp"
    /\ Returned /\ IsOk(result)
    /\ lastvp.d # {} /\ lastvp.d # DOMAIN LastIn
    /\ DOMAIN threads = lastvp.d
    /\ \A k \in DOMAIN threads : threads[k].state = "done"

\* the last issue_vp call disclosed no key of the credential
Vacuous == lastvp # NoRes /\ lastvp.d \cap DOMAIN LastIn = {}

\* C7 Vacuous disclosure: issue_vp with no disclosure that is a key of the
\* credential returns a VP with an empty WVC, and verify_vp accepts it.
VacuousDisclosure ==
    Vacuous =>
        /\ IsOk(lastvp.res)
        /\ LastOut = EmptyMap
        /\ IsOk(get_and_decode(lastvp.res.ok[1], WVC, "Map"))
        /\ (Honest /\ mode = "vp" /\ Returned) =>
              (IsOk(result) /\ threads = EmptyMap)

VacuousDisclosureWitness ==
    /\ Vacuous /\ Honest /\ mode = "vp" /\ Returned /\ IsOk(result)
    /\ nvp = 1
    /\ lastvp.d # {}
    /\ LastIn # EmptyMap

\* C9 Issuance invariant: the WVC of an issued VC has exactly the keys of
\* the raw credential's claim-set.
IssuanceKeys ==
    IsOk(issued) =>
        /\ IsOk(get_and_decode(issued.ok[1], WVC, "Map"))
        /\ DOMAIN WvcOf(issued.ok[1]) = DOMAIN extract_claims(raw_vc).ok

IssuanceKeysWitness ==
    /\ IsOk(issued)
    /\ Cardinality(DOMAIN WvcOf(issued.ok[1])) = NumKeys

\* After any sequence of issue_vp calls the WVC keys are the issued keys
\* that every disclosure list contained, and a further call with the last
\* list changes nothing.
DisclosureMonotone ==
    (cur # NoRes /\ Honest) =>
        /\ DOMAIN WvcOf(cur.map) = allowed
        /\ allowed \subseteq IssuedKeys
        /\ nvp > 0 =>
              \A d \in DisclosureLists :
                  Range(d) = lastvp.d =>
                      LET again == issue_vp(cur.map, d, adapter.holder_private_key)
                      IN IsOk(again) /\ again.ok[1] = cur.map

\* C10 Disclosure monotonicity, with its step form: a key once filtered
\* out never reappears.
DisclosureMonotonicity ==
    /\ []DisclosureMonotone
    /\ [][(cur # NoRes /\ cur' # NoRes /\ Honest')
             => DOMAIN WvcOf(cur'.map) \subseteq DOMAIN WvcOf(cur.map)]_vars

DisclosureMonotoneWitness ==
    /\ cur # NoRes /\ Honest
    /\ nvp = MaxVp
    /\ Cardinality(IssuedKeys) = NumKeys
    /\ lastvp.d = IssuedKeys
    /\ DOMAIN WvcOf(cur.map) # IssuedKeys

\* ------------------------------------- claims on the shared functions
Filtered == call # NoRes /\ call.op = "filter_claims_by_disclosure_and_insert"
ClaimsBefore == extract_claims(call.before).ok
Asked == Range(call.arg.disclosures)

\* C11 Index correspondence: every index filter_claims_by_disclosure_and_
\* insert returns is a position of the claim-set in iteration order, and the
\* claims at the returned positions are exactly the claims whose key is in
\* the disclosure list.
IndexCorrespondence ==
    (Filtered /\ IsOk(call.out)) =>
        LET keys == Iter(ClaimsBefore)
            indices == call.out.ok
        IN /\ \A j \in 1..Len(indices) : indices[j] \in 0..(Len(keys) - 1)
           /\ {keys[indices[j] + 1] : j \in 1..Len(indices)}
                 = Asked \cap DOMAIN ClaimsBefore

IndexCorrespondenceWitness ==
    /\ Filtered /\ IsOk(call.out)
    /\ Cardinality(DOMAIN ClaimsBefore) = NumKeys
    /\ call.out.ok = <<NumKeys - 1>>

\* C12 Index order: the indices returned are strictly increasing, one per
\* retained claim, whatever the order of the disclosure list and whether or
\* not it repeats a key.
IndexOrder ==
    (Filtered /\ IsOk(call.out)) =>
        LET indices == call.out.ok
        IN /\ \A i, j \in 1..Len(indices) : i < j => indices[i] < indices[j]
           /\ Len(indices) = Cardinality(Asked \cap DOMAIN ClaimsBefore)

\* C13 Filtering result: the call fails only when extract_claims does; after
\* it the claim-set field holds exactly the claims whose key is in the
\* list, with their values, and no other field has changed.
FilteringResult ==
    Filtered =>
        /\ IsOk(call.out) <=> IsOk(extract_claims(call.before))
        /\ IsErr(call.out) => call.map = call.before
        /\ IsOk(call.out) =>
              /\ IsOk(extract_claims(call.map))
              /\ LET after == extract_claims(call.map).ok
                 IN /\ DOMAIN after = Asked \cap DOMAIN ClaimsBefore
                    /\ \A k \in DOMAIN after : after[k] = ClaimsBefore[k]
              /\ MapRemove(call.map, CLAIMS) = MapRemove(call.before, CLAIMS)

FilteringResultWitness ==
    /\ Filtered /\ IsOk(call.out)
    /\ Asked \ DOMAIN ClaimsBefore # {}
    /\ Asked \cap DOMAIN ClaimsBefore # {}
    /\ DOMAIN extract_claims(call.map).ok = Asked \cap DOMAIN ClaimsBefore

Inserted == call # NoRes /\ call.op = "serialize_and_insert"

Extracted == call # NoRes /\ call.op = "extract_claims"

\* C17 extract_claims outcome: one error when the claim-set field is
\* absent, another when it holds no object, and otherwise the mapping
\* stored under the field.
ExtractOutcome ==
    Extracted =>
        LET missing == Err("Map does not contain the credentialSubject field")
        IN IF CLAIMS \notin DOMAIN call.before THEN call.out = missing
           ELSE IF IsObj(call.before[CLAIMS])
                THEN call.out = Ok(call.before[CLAIMS].obj)
                ELSE IsErr(call.out) /\ call.out # missing

ExtractOutcomeWitness ==
    /\ Extracted
    /\ CLAIMS \in DOMAIN call.before
    /\ ~IsObj(call.before[CLAIMS])
    /\ IsErr(call.out)

Removed == call # NoRes /\ call.op = "remove_claims"

\* C19 remove_claims outcome: an error and the map untouched when the
\* claim-set field is absent; otherwise success, the field gone and the
\* other fields as before; a second call directly after a successful one
\* fails.
RemoveOutcome ==
    Removed =>
        /\ CLAIMS \notin DOMAIN call.before =>
              (IsErr(call.out) /\ call.map = call.before)
        /\ CLAIMS \in DOMAIN call.before =>
              /\ IsOk(call.out)
              /\ CLAIMS \notin DOMAIN call.map
              /\ call.map = MapRemove(call.before, CLAIMS)
        /\ (call.prevop = "remove_claims" /\ IsOk(call.prevout)) => IsErr(call.out)

RemoveOutcomeWitness ==
    /\ Removed
    /\ call.prevop = "remove_claims"
    /\ IsOk(call.prevout)
    /\ IsErr(call.out)

Converted == call # NoRes /\ call.op = "convert_claims_to_bytes"

\* C20 Canonical bytes: convert_claims_to_bytes never fails and returns, in
\* iteration order, key ':' value for each claim whose value is a string and
\* nothing for the other claims.
CanonicalBytes ==
    Converted =>
        LET claims == call.arg.claims
            strings == {k \in DOMAIN claims : IsStr(claims[k])}
            order(k) == CHOOSE i \in 1..Len(KeyOrder) : KeyOrder[i] = k
        IN /\ IsOk(call.out)
           /\ Len(call.out.ok) = Cardinality(strings)
           /\ \A i \in 1..Len(call.out.ok) :
                 LET message == call.out.ok[i] IN
                 /\ message[1] \in strings
                 /\ message = <<message[1], ":", claims[message[1]].str>>
           /\ \A i, j \in 1..Len(call.out.ok) :
                 i < j => order(call.out.ok[i][1]) < order(call.out.ok[j][1])

CanonicalBytesWitness ==
    /\ Converted
    /\ Len(call.out.ok) = 1
    /\ Cardinality(DOMAIN call.arg.claims) = NumKeys

Hashed == call # NoRes /\ call.op = "convert_claim_to_scalar"

\* C14 Element injectivity: the string convert_claim_to_scalar feeds to the
\* hash is the string of no other pair: whichever ':' of it is taken as the
\* separator, no value's JSON text after the key before it gives the same
\* string, except the pair the string was made from.
ElementInjectivity ==
    Hashed =>
        \A i \in 1..Len(call.out) :
            call.out[i] = ":" =>
                LET key2 == SubSeq(call.out, 1, i - 1)
                IN \A value2 \in HashValues :
                      hash_input(key2, value2) = call.out =>
                          (key2 = call.arg.key /\ value2 = call.arg.value)

ElementInjectivityWitness ==
    /\ Hashed
    /\ call.arg.key = <<":">>
    /\ call.arg.value = JObj(<<(<<(<<":">>), JStr(<<":">>)>>), (<<(<<"a">>), JNum(7)>>)>>)
    /\ Len(call.out) > 12

\* --------------------------------------------- claims on issue_vc calls
Issued == call # NoRes /\ call.op = "issue_vc"
ElementsOf(claims) == {convert_claim_to_scalar(k, claims[k]) : k \in DOMAIN claims}
AccumulatorOf(map) == deserialize(get_and_decode(map, ACCUMULATOR, "String").ok).ok
WitnessOf(entry) == deserialize(entry.arr[1].str).ok

IssuedVc == issued.ok[1]

\* C24 Witness derivation order: the accumulator in the VC holds the
\* elements of all claims, and the witness stored under a claim key is the
\* witness of that claim's own element against that final accumulator,
\* stored beside the claim's value.
WitnessDerivationOrder ==
    IsOk(issued) =>
        LET claims == extract_claims(raw_vc).ok
            accumulator == AccumulatorOf(IssuedVc)
            wvc == WvcOf(IssuedVc)
        IN /\ accumulator.elems = ElementsOf(claims)
           /\ DOMAIN wvc = DOMAIN claims
           /\ \A k \in DOMAIN wvc :
                 LET element == convert_claim_to_scalar(k, claims[k])
                     witness == WitnessOf(wvc[k])
                 IN /\ wvc[k].arr[2] = claims[k]
                    /\ witness.elems = accumulator.elems \ {element}
                    /\ verify_membership(accumulator, element, witness,
                                         adapter.issuer_public_key, adapter.params)

WitnessDerivationOrderWitness ==
    /\ IsOk(issued)
    /\ Cardinality(AccumulatorOf(IssuedVc).elems) = NumKeys
    /\ \A k \in DOMAIN WvcOf(IssuedVc) : WitnessOf(WvcOf(IssuedVc)[k]).elems # {}

\* C25 Shape and frame of issuance: the VC is the raw credential without
\* the claim-set field and with the accumulator and WVC fields set, its
\* other fields as in the raw credential; an error produces no VC; no step
\* changes the raw credential.
IssuanceShape ==
    /\ IsOk(issued) =>
          /\ DOMAIN IssuedVc = (DOMAIN raw_vc \ {CLAIMS}) \cup {ACCUMULATOR, WVC}
          /\ \A f \in DOMAIN raw_vc \ {CLAIMS, ACCUMULATOR, WVC} :
                IssuedVc[f] = raw_vc[f]
          /\ IsOk(get_and_decode(IssuedVc, ACCUMULATOR, "String"))
          /\ IsOk(get_and_decode(IssuedVc, WVC, "Map"))
    /\ (issued # NoRes /\ IsErr(issued)) => cur = NoRes

IssuanceFrame == [][raw_vc' = raw_vc]_vars

ShapeAndFrame == []IssuanceShape /\ IssuanceFrame

ShapeAndFrameWitness ==
    /\ IsOk(issued)
    /\ CLAIMS \in DOMAIN raw_vc
    /\ CLAIMS \notin DOMAIN IssuedVc
    /\ ISSUER \in DOMAIN IssuedVc
    /\ WvcOf(IssuedVc) # EmptyMap

\* ---------------------------------------------- claims on verification
Verifying == verifier' # verifier

\* C27 Verification and presentation are read-only: no step of verify_vc or
\* verify_vp, or of a thread it started, changes the credential it was
\* given, the adapter's keys and parameters or the accumulator decoded from
\* the credential, and every thread works on a copy of that accumulator;
\* issue_vp leaves the VC it was given as it was and its VP has the
\* accumulator field and every field other than the WVC as in that VC.
VerifyReadOnly ==
    [][Verifying =>
          /\ cur' = cur /\ issued' = issued /\ adapter' = adapter
          /\ locals # NoRes => locals' = locals]_vars

ThreadsCopy ==
    \A k \in DOMAIN threads :
       /\ cur # NoRes
       /\ threads[k].thread_accumulator = AccumulatorOf(cur.map)
       /\ threads[k].thread_pk = adapter.issuer_public_key
       /\ threads[k].thread_params = adapter.params

PresentReadOnly ==
    [][lastvp' # lastvp =>
          /\ lastvp'.vc = cur.map /\ issued' = issued /\ adapter' = adapter
          /\ IsOk(lastvp'.res) =>
                /\ MapRemove(lastvp'.res.ok[1], WVC) = MapRemove(cur.map, WVC)
                /\ lastvp'.res.ok[1][ACCUMULATOR] = cur.map[ACCUMULATOR]]_vars

ReadOnly == VerifyReadOnly /\ []ThreadsCopy /\ PresentReadOnly

ReadOnlyWitness ==
    /\ pc = "done"
    /\ IsOk(result)
    /\ nvp > 0
    /\ threads # EmptyMap
    /\ \A k \in DOMAIN threads : threads[k].state = "done"
    /\ MapRemove(cur.map, WVC) = MapRemove(IssuedVc, WVC)

\* ------------------------------------- claims on malformed credentials
Started == pc # "idle"
BadSignature ==
    altered # NoRes /\ altered.kind \in {"unsigned", "other key", "payload changed"}
Malformed ==
    altered # NoRes
    /\ altered.kind \in {"absent", "not a string", "not base64", "not JSON",
                         "wrong type", "no point"}

\* C28 Holder signature is checked first: verify_vp of an envelope that is
\* unsigned (the envelope of a VC included), signed with another key or
\* signed over another payload returns the error of the signature check,
\* reads no field (also when a field is missing) and starts no thread.
SignatureFirst ==
    (Started /\ mode = "vp" /\ (BadSignature \/ (nvp = 0 /\ altered = NoRes))) =>
        /\ pc = "done"
        /\ result = Err("Failed to decode and verify jwt")
        /\ locals = NoRes
        /\ threads = EmptyMap

SignatureFirstWitness ==
    /\ Started /\ mode = "vp"
    /\ altered # NoRes /\ altered.kind = "payload changed"
    /\ nvp > 0
    /\ IsErr(result)
    /\ IsOk(verify_vc_decode(cur.map))

\* C29 Structural rejection: verify_vc and verify_vp of a credential whose
\* WVC or accumulator field is absent, is no string, is no base64url, no
\* JSON or JSON of another type, or whose accumulator string is no point,
\* return an error and start no thread; where the map is read at all, the
\* error of an absent field is another than that of a malformed field.
StructuralRejection ==
    (Started /\ Malformed) =>
        /\ pc = "done"
        /\ IsErr(result)
        /\ threads = EmptyMap
        /\ locals = NoRes
        /\ (mode = "vc" \/ nvp > 0) =>
              (result = Err("Failed to retrieve field") <=> altered.kind = "absent")

StructuralRejectionWitness ==
    /\ Started /\ Malformed
    /\ mode = "vp" /\ nvp > 0
    /\ altered.kind = "wrong type"
    /\ altered.key = ACCUMULATOR
    /\ IsErr(result)

\* ---------------------------------------------- claims on the lifecycle
\* issue_vp refuses a raw credential, issue_vc refuses an issued VC and a
\* VP, and a VP exists only after a VC was issued
LifecycleSteps ==
    /\ \A disclosures \in DisclosureLists :
          IsErr(issue_vp(raw_vc, disclosures, adapter.holder_private_key))
    /\ cur # NoRes =>
          IsErr(issue_vc(cur.map, adapter.issuer_private_key, adapter.params))
    /\ (lastvp # NoRes /\ IsOk(lastvp.res)) => IsOk(issued)

\* a verification in which the check of some entry fails ends in an error
LifecycleRejected ==
    (Returned /\ locals # NoRes /\ \E k \in DOMAIN locals.wvc : ~EntryPasses(k))
        => IsErr(result)

\* C30 Lifecycle order: operations succeed only in the order Raw -> Issued
\* -> Presented (issue_vp fails on a raw credential, issue_vc fails on a VC
\* or VP, a VP comes only from an issued VC), and a credential is rejected
\* whenever a verification check fails.
LifecycleOrder == LifecycleSteps /\ LifecycleRejected

\* ------------------------------------------ claims on the benchmark run
Measuring == bench # NoRes /\ bench.log # <<>>
LastCall == bench.log[Len(bench.log)]
CallBefore == bench.log[Len(bench.log) - 1]

\* C22 Same workload across schemes: issue_vc is given the raw credential
\* with the mock claims of the iteration, the same for every adapter;
\* verify_vc is called on the VC the same instance has just issued;
\* issue_vp is called on the VC that same instance issued in the iteration,
\* with the disclosure list the other adapters get; verify_vp is called on
\* the envelope the same instance has just produced.
SameWorkload ==
    Measuring =>
        LET c == LastCall
            same == {j \in 1..Len(bench.log) :
                        /\ bench.log[j].op = c.op
                        /\ bench.log[j].n = c.n
                        /\ bench.log[j].nd = c.nd}
        IN /\ c.op = "issue_vc" =>
                /\ c.arg[CLAIMS] = JObj(mock_claims(c.n))
                /\ \A j \in same : bench.log[j].arg = c.arg
           /\ c.op = "verify_vc" =>
                /\ CallBefore.op = "issue_vc"
                /\ CallBefore.algo = c.algo
                /\ IsOk(CallBefore.out)
                /\ c.arg = CallBefore.out.ok[1]
           /\ c.op = "issue_vp" =>
                /\ c.arg.vc.vc_by = c.algo
                /\ \E j \in 1..Len(bench.log) :
                      /\ bench.log[j].op = "issue_vc"
                      /\ bench.log[j].n = c.n
                      /\ bench.log[j].algo = c.algo
                      /\ bench.log[j].out = Ok(<<c.arg.vc, bench.log[j].out.ok[2]>>)
                /\ \A j \in same : bench.log[j].arg.disclosures = c.arg.disclosures
           /\ c.op = "verify_vp" =>
                /\ CallBefore.op = "issue_vp"
                /\ CallBefore.algo = c.algo
                /\ IsOk(CallBefore.out)
                /\ c.arg = CallBefore.out.ok[2]
           /\ \A j \in same : bench.log[j].algo.scheme = c.algo.scheme => j = Len(bench.log)

SameWorkloadWitness ==
    /\ Measuring
    /\ bench.pc = "end"
    /\ IsOk(bench.result)
    /\ LastCall.op = "verify_vp"
    /\ LastCall.algo.scheme = Schemes[Len(Schemes)]
    /\ LastCall.n = MaxMockClaims
    /\ LastCall.nd > VpEvery

\* C23 Failure isolation in the harness: when an operation of one scheme
\* has failed in an iteration, the run still measures the other schemes in
\* that iteration and carries out the iterations after it.
FailureIsolation ==
    (bench # NoRes /\ bench.pc = "end" /\ bench.failed # NoRes /\ bench.failed.n > 0) =>
        /\ \A i \in 1..Len(Schemes) :
              Schemes[i] # bench.failed.scheme =>
                  \E j \in 1..Len(bench.log) :
                     /\ bench.log[j].op = "verify_vc"
                     /\ bench.log[j].n = bench.failed.n
                     /\ bench.log[j].algo.scheme = Schemes[i]
        /\ \A n \in (bench.failed.n + 1)..MaxMockClaims :
              \E j \in 1..Len(bench.log) : bench.log[j].n = n


\* ------------------------------------------- claims on the check tasks
\* a task took a step: the record of a spawned thread changed
TaskStep(k) ==
    k \in DOMAIN threads /\ k \in DOMAIN threads' /\ threads'[k] # threads[k]

\* C31 Race freedom of per-claim checks: a step of the task of one WVC
\* entry changes nothing but that task (no other task, no local of the
\* caller, nothing of the holder), and the task keeps the copies it was
\* given; every finished task holds the outcome that the entry of its own
\* key gives with the accumulator, public key and parameters of the call,
\* whatever the order in which the tasks ran.
TaskIsolation ==
    [][\A k \in ClaimKeys :
          TaskStep(k) =>
             /\ \A j \in DOMAIN threads \ {k} : threads'[j] = threads[j]
             /\ DOMAIN threads' = DOMAIN threads
             /\ <<pc, mode, locals, pending, result>>' =
                    <<pc, mode, locals, pending, result>>
             /\ holder' = holder
             /\ threads'[k].array_value = threads[k].array_value
             /\ threads'[k].thread_accumulator = threads[k].thread_accumulator
             /\ threads'[k].thread_pk = threads[k].thread_pk
             /\ threads'[k].thread_params = threads[k].thread_params]_vars

TaskOutcome ==
    \A k \in DOMAIN threads :
       /\ threads[k].array_value = locals.wvc[k]
       /\ threads[k].state = "done" => threads[k].out = EntryCheck(k)

RaceFreedom == []TaskOutcome /\ TaskIsolation

\* the task spawned second has finished while the first is still running
RaceFreedomWitness ==
    /\ Len(Iter(threads)) = 2
    /\ threads[Iter(threads)[1]].state = "running"
    /\ threads[Iter(threads)[2]].state = "done"
    /\ IsOk(threads[Iter(threads)[2]].out.result)


\* ---------------------------------------------- claims on the harness
\* C32 No uncatchable faults: when the benchmark run has ended because an
\* operation of an adapter failed (issuer_keypair included), what the run
\* hands back is an Err result naming the failure, never a panic.
NoUncatchableFaults ==
    (bench # NoRes /\ bench.pc = "end") =>
        /\ IsOk(bench.result) \/ IsErr(bench.result)
        /\ bench.failed # NoRes => IsErr(bench.result)


\* ------------------------------------------------ claims on insert_claims
ClaimsInserted == call # NoRes /\ call.op = "insert_claims"

\* C33 insert_claims postcondition: after insert_claims(map, c) the
\* claim-set field of map holds exactly c and every other field is as it
\* was, whatever the result; the result is success exactly when the field
\* was present before the call, and an error when it was absent.
InsertOutcome ==
    ClaimsInserted =>
        /\ DOMAIN call.map = DOMAIN call.before \cup {CLAIMS}
        /\ call.map[CLAIMS] = JObj(call.arg.claims)
        /\ \A f \in DOMAIN call.before \ {CLAIMS} : call.map[f] = call.before[f]
        /\ IsOk(call.out) <=> CLAIMS \in DOMAIN call.before
        /\ IsErr(call.out) <=> CLAIMS \notin DOMAIN call.before

\* the error case: the field was absent, the call failed and the map now
\* holds the claims
InsertOutcomeWitness ==
    /\ ClaimsInserted
    /\ IsErr(call.out)
    /\ call.map # call.before
    /\ call.arg.claims # EmptyMap
    /\ extract_claims(call.map) = Ok(call.arg.claims)


\* ------------------------------------------------ claims on BBS+
Presenting == call # NoRes /\ call.op = "issue_vp" /\ IsOk(call.args)
ClaimAt(claims, index) == Iter(claims)[index + 1]

\* C34 Position/message alignment: in issue_vp every index the disclosure
\* filter returned is a position of the byte-message list built from the
\* full claim-set of the VC, and the message at that position is the one of
\* the claim the index was computed for (its key, and its value when that
\* is a string), whatever the values of the claim-set are.
PositionAlignment ==
    Presenting =>
        \A j \in 1..Len(call.args.ok.disclosed_indices) :
           LET index == call.args.ok.disclosed_indices[j]
               messages == call.args.ok.messages
               claims == call.args.ok.claims
           IN /\ index < Len(messages)
              /\ messages[index + 1][1] = ClaimAt(claims, index)
              /\ IsStr(claims[ClaimAt(claims, index)]) =>
                    messages[index + 1][3] = claims[ClaimAt(claims, index)].str

\* C35 Index/claim pairing: in the VP that issue_vp produced the indices
\* field is as long as the claim-set of the VP, and the j-th claim of the
\* VP in iteration order is the claim at position indices[j] of the
\* claim-set of the VC, for every disclosure list.
IndexClaimPairing ==
    (call # NoRes /\ call.op = "issue_vp" /\ IsOk(call.out)) =>
        LET vp == call.out.ok[1]
            indices == get_and_decode(vp, INDICES, "Vec").ok
            disclosed == extract_claims(vp).ok
            claims == extract_claims(call.vc).ok
        IN /\ Len(indices) = Len(Iter(disclosed))
           /\ \A j \in 1..Len(Iter(disclosed)) :
                 /\ Iter(disclosed)[j] = ClaimAt(claims, indices[j])
                 /\ disclosed[Iter(disclosed)[j]] = claims[ClaimAt(claims, indices[j])]


\* ------------------------------------- claims on the harness schedule
Entries(op, n) ==
    {j \in 1..Len(bench.log) : bench.log[j].op = op /\ bench.log[j].n = n}
\* iteration n of the loop of line 104 has run to its end
Completed(n) ==
    bench.n_mock_claims > n \/ (bench.pc = "end" /\ IsOk(bench.result))

\* C36 Presentation schedule: the claim counts run from 1 upwards, one after
\* the other; the credential of iteration n holds exactly the claims of
\* keys 1..n with the value of their number; presentations are measured
\* exactly in the iterations whose n is a multiple of 10, there for exactly
\* the 10 sizes 1, 1 + n/10, ..., 1 + 9 * (n/10); every disclosure list is
\* the first k keys, 1 <= k <= n, all of them keys of the credential, and
\* the step is never zero.
PresentationSchedule ==
    bench # NoRes =>
       /\ bench.n_mock_claims \in 1..MaxMockClaims
       /\ \A i, j \in 1..Len(bench.log) : i < j => bench.log[i].n <= bench.log[j].n
       /\ \A j \in 1..Len(bench.log) :
             LET c == bench.log[j] IN
             /\ c.n \in 1..bench.n_mock_claims
             /\ c.op = "issue_vc" =>
                   /\ IsObj(c.arg[CLAIMS])
                   /\ DOMAIN c.arg[CLAIMS].obj = 1..c.n
                   /\ \A i \in 1..c.n :
                         c.arg[CLAIMS].obj[i] = JStr([claim_value |-> i])
             /\ c.op \in {"issue_vp", "verify_vp"} =>
                   /\ c.n % 10 = 0
                   /\ c.n \div 10 > 0
                   /\ \E k \in 0..9 : c.nd = 1 + k * (c.n \div 10)
             /\ c.op = "issue_vp" =>
                   /\ Len(c.arg.disclosures) = c.nd
                   /\ c.nd \in 1..c.n
                   /\ \A i \in 1..c.nd : c.arg.disclosures[i] = i
                   /\ Range(c.arg.disclosures) \subseteq
                         DOMAIN c.arg.vc.vc_of[CLAIMS].obj
       /\ \A n \in 1..MaxMockClaims :
             Completed(n) =>
                /\ Entries("issue_vc", n) # {}
                /\ {bench.log[j].nd : j \in Entries("issue_vp", n)} =
                      IF n % 10 = 0 THEN {1 + k * (n \div 10) : k \in 0..9} ELSE {}

\* the whole run has come to its end: presentations were measured at 10
\* claims with step 1 and at 20 claims with step 2
PresentationScheduleWitness ==
    /\ bench # NoRes /\ bench.pc = "end" /\ IsOk(bench.result)
    /\ Entries("issue_vp", 10) # {}
    /\ \E j \in Entries("verify_vp", 20) : bench.log[j].nd = 19
    /\ Entries("issue_vp", 9) = {}


\* --------------------------------- claims on complementary_indices
Complemented == call # NoRes /\ call.op = "complementary_indices"
Below(len) == 0..(len - 1)

\* C37 complementary_indices(disclosed, len) returns, in increasing order
\* and without repetition, exactly the indices below len that do not occur
\* in disclosed; with the members of disclosed that are below len they
\* partition the indices below len, and the members of disclosed that are
\* not below len change nothing.
ComplementPartition ==
    Complemented =>
        LET given == Range(call.disclosed) \cap Below(call.len) IN
        /\ StrictlyIncreasing(call.out)
        /\ Range(call.out) = Below(call.len) \ Range(call.disclosed)
        /\ Range(call.out) \cap given = {}
        /\ Range(call.out) \cup given = Below(call.len)
        /\ Len(call.out) = call.len - Cardinality(given)

\* a vector with a repeated index below len and an index not below len
ComplementPartitionWitness ==
    /\ Complemented
    /\ \E i, j \in 1..Len(call.disclosed) :
          i # j /\ call.disclosed[i] = call.disclosed[j] /\ call.disclosed[i] < call.len
    /\ \E i \in 1..Len(call.disclosed) : call.disclosed[i] >= call.len
    /\ Len(call.out) > 1

====
